---- MODULE Spec2Model ----
(***************************************************************************)
(* Orbital Sentinel, CRE AI analysis endpoint (cre_analyze_endpoint.py).   *)
(*                                                                         *)
(* Two Flask handlers, analyze and analyze_arb, authenticate a request by  *)
(* a shared secret, parse its JSON body, render it into a prompt, call an  *)
(* AI provider once and relay the provider's JSON reply.                   *)
(*                                                                         *)
(* Text is a sequence of characters.  A character is a one-character       *)
(* string; a word that contains no whitespace, quote, backtick or JSON     *)
(* punctuation may be written as one element (an opaque run of letters).   *)
(* Python values are tagged records:                                       *)
(*   [t |-> "str",  s |-> text]     [t |-> "int", neg |-> b, mag |-> ds]   *)
(*   [t |-> "dict", d |-> function] [t |-> "list", l |-> sequence]         *)
(*   [t |-> "None"]                 [t |-> "nan"]                          *)
(* Python integers are unbounded: an int is a sign and a canonical         *)
(* sequence of decimal digits.                                             *)
(***************************************************************************)
EXTENDS Integers, Sequences, FiniteSets, TLC

VARIABLES
    CRE_SECRET,     \* _CRE_SECRET, read once at import
    environ,        \* os.environ: ANTHROPIC_API_KEY, OPENAI_API_KEY
    endpoint,       \* the handler serving the current request
    header,         \* the request's X-CRE-Secret header (None when missing)  
    body,           \* the request's raw body text
    stage,          \* the handler's position
    data,           \* the parsed body
    prompt,         \* the prompt handed to the provider
    invocations,    \* calls of the provider's create() made by this request
    reply,          \* the provider's reply text
    result,         \* what json.loads made of the reply
    response,       \* the HTTP response, once produced
    responses,      \* responses produced for this request
    value_str,      \* formatUnits_py: its argument
    formatted,      \* formatUnits_py: its result
    snapshot,       \* _format_prompt: its argument
    rendered        \* _format_prompt: its result

vars == <<CRE_SECRET, environ, endpoint, header, body, stage, data, prompt,
          invocations, reply, result, response, responses, value_str,
          formatted, snapshot, rendered>>

requestVars == <<CRE_SECRET, environ, endpoint, header, body, stage, data,
                 prompt, invocations, reply, result, response, responses>>
unitsVars == <<value_str, formatted>>
promptVars == <<snapshot, rendered>>

\* ------------------------------------------------------------------ text

\* The backtick character (a TLA+ string cannot hold one).
Backtick == "<backtick>"

Whitespace == {" ", "\n"}

RECURSIVE LStrip(_)
LStrip(s) ==
    IF s # <<>> /\ Head(s) \in Whitespace THEN LStrip(Tail(s)) ELSE s

RECURSIVE RStrip(_)
RStrip(s) ==
    IF s # <<>> /\ s[Len(s)] \in Whitespace
    THEN RStrip(SubSeq(s, 1, Len(s) - 1))
    ELSE s

\* str.strip()
Strip(s) == RStrip(LStrip(s))

\* str.startswith(p)
StartsWith(s, p) == Len(s) >= Len(p) /\ SubSeq(s, 1, Len(p)) = p

\* s[n:]
DropFirst(s, n) == IF n >= Len(s) THEN <<>> ELSE SubSeq(s, n + 1, Len(s))

\* s[:n]
TakeFirst(s, n) == IF n >= Len(s) THEN s ELSE SubSeq(s, 1, n)

RECURSIVE Repeat(_, _)
Repeat(c, n) == IF n <= 0 THEN <<>> ELSE <<c>> \o Repeat(c, n - 1)

RECURSIVE Concat(_)
Concat(ss) == IF ss = <<>> THEN <<>> ELSE Head(ss) \o Concat(Tail(ss))

\* ------------------------------------------------------- Python values

PyStr(s) == [t |-> "str", s |-> s]
PyInt(neg, mag) == [t |-> "int", neg |-> neg, mag |-> mag]
PyDict(d) == [t |-> "dict", d |-> d]
PyList(l) == [t |-> "list", l |-> l]
PyNone == [t |-> "None"]
PyNaN == [t |-> "nan"]

EmptyDict == PyDict(<<>>)

DigitChars == <<"0", "1", "2", "3", "4", "5", "6", "7", "8", "9">>

IsDigit(c) == \E i \in 1..10 : DigitChars[i] = c

DigitVal(c) == (CHOOSE i \in 1..10 : DigitChars[i] = c) - 1

\* A digit sequence without its leading zeros (zero is <<0>>).
RECURSIVE Canon(_)
Canon(ds) ==
    IF ds = <<>> THEN <<0>>
    ELSE IF Len(ds) > 1 /\ Head(ds) = 0 THEN Canon(Tail(ds))
    ELSE ds

\* The magnitude ds + 1.
RECURSIVE Inc(_)
Inc(ds) ==
    IF ds = <<>> THEN <<1>>
    ELSE IF ds[Len(ds)] < 9
    THEN SubSeq(ds, 1, Len(ds) - 1) \o <<ds[Len(ds)] + 1>>
    ELSE Inc(SubSeq(ds, 1, Len(ds) - 1)) \o <<0>>

\* The magnitude ds left-padded with zeros to n digits.
PadDigits(ds, n) == Repeat(0, n - Len(ds)) \o ds

\* 10^d - r for a magnitude 0 < r < 10^d: the nines' complement plus one.
Pow10Minus(r, d) ==
    LET p == PadDigits(r, d)
    IN Canon(Inc([i \in 1..d |-> 9 - p[i]]))

\* The magnitude floor(m / 10^d).
MagDiv(m, d) == IF Len(m) > d THEN SubSeq(m, 1, Len(m) - d) ELSE <<0>>

\* The magnitude m mod 10^d.
MagMod(m, d) ==
    IF Len(m) > d THEN Canon(SubSeq(m, Len(m) - d + 1, Len(m))) ELSE m

\* val // (10 ** d), Python's floor division.
FloorDivPow10(val, d) ==
    IF ~val.neg THEN PyInt(FALSE, MagDiv(val.mag, d))
    ELSE IF MagMod(val.mag, d) = <<0>> THEN PyInt(TRUE, MagDiv(val.mag, d))
    ELSE PyInt(TRUE, Inc(MagDiv(val.mag, d)))

\* val % (10 ** d), Python's modulo: the result is never negative.
ModPow10(val, d) ==
    IF ~val.neg \/ MagMod(val.mag, d) = <<0>>
    THEN PyInt(FALSE, MagMod(val.mag, d))
    ELSE PyInt(FALSE, Pow10Minus(MagMod(val.mag, d), d))

\* The text int() accepts: optional whitespace around an optional sign and
\* one or more digits.
IntLiteralBody(s) ==
    LET u == Strip(s)
    IN IF u # <<>> /\ Head(u) \in {"+", "-"} THEN Tail(u) ELSE u

IntLiteralOk(s) ==
    LET u == IntLiteralBody(s)
    IN u # <<>> /\ \A i \in 1..Len(u) : IsDigit(u[i])

\* int(s) for a text int() accepts.
ParseInt(s) ==
    LET u == IntLiteralBody(s)
        mag == Canon([i \in 1..Len(u) |-> DigitVal(u[i])])
    IN PyInt(Head(Strip(s)) = "-" /\ mag # <<0>>, mag)

\* str(n) of an int
IntStr(n) ==
    (IF n.neg THEN <<"-">> ELSE <<>>)
        \o [i \in 1..Len(n.mag) |-> DigitChars[n.mag[i] + 1]]

\* str.zfill(width)
ZFill(s, width) == Repeat("0", width - Len(s)) \o s

\* The digits of format(n, ","): a comma before every group of three.
RECURSIVE Grouped(_)
Grouped(s) ==
    IF Len(s) <= 3 THEN s
    ELSE Grouped(SubSeq(s, 1, Len(s) - 3))
             \o <<",">> \o SubSeq(s, Len(s) - 2, Len(s))

\* f"{n:,}" of an int
IntCommaStr(n) ==
    (IF n.neg THEN <<"-">> ELSE <<>>)
        \o Grouped([i \in 1..Len(n.mag) |-> DigitChars[n.mag[i] + 1]])

\* ------------------------------------------------------- formatUnits_py

PyBool(b) == [t |-> "bool", b |-> b]
PyFloat(neg, int, frac) == [t |-> "float", neg |-> neg, int |-> int, frac |-> frac]
PyInf(neg) == [t |-> "inf", neg |-> neg]

\* What a call gives: the text it returns, or the exception it raises.
Returned(text) == [raised |-> FALSE, text |-> text]
Raised(exc, msg) == [raised |-> TRUE, exc |-> exc, msg |-> msg]

\* int(v): "ok", or the exception it raises.
IntOutcome(v) ==
    CASE v.t = "str" -> IF IntLiteralOk(v.s) THEN "ok" ELSE "ValueError"
      [] v.t \in {"int", "bool", "float"} -> "ok"
      [] v.t = "nan" -> "ValueError"
      [] v.t = "inf" -> "OverflowError"
      [] OTHER -> "TypeError"

\* int(v) where it raises nothing
IntOf(v) ==
    CASE v.t = "str" -> ParseInt(v.s)
      [] v.t = "bool" -> PyInt(FALSE, IF v.b THEN <<1>> ELSE <<0>>)
      [] v.t = "float" -> PyInt(v.neg /\ Canon(v.int) # <<0>>, Canon(v.int))
      [] OTHER -> v

DigitText(ds) == [i \in 1..Len(ds) |-> DigitChars[ds[i] + 1]]

\* str(v); the repr of a list or a dict is not spelled out.
StrOf(v) ==
    CASE v.t = "str" -> v.s
      [] v.t = "int" -> IntStr(v)
      [] v.t = "None" -> <<"None">>
      [] v.t = "nan" -> <<"nan">>
      [] v.t = "inf" -> IF v.neg THEN <<"-inf">> ELSE <<"inf">>
      [] v.t = "bool" -> IF v.b THEN <<"True">> ELSE <<"False">>
      [] v.t = "float" ->
            (IF v.neg THEN <<"-">> ELSE <<>>)
                \o DigitText(v.int) \o <<".">> \o DigitText(v.frac)
      [] v.t = "list" -> <<"<repr of list>">>
      [] OTHER -> <<"<repr of dict>">>

\* formatUnits_py(value_str, decimals=18)
formatUnits_py(v, decimals) ==
    CASE IntOutcome(v) \in {"ValueError", "TypeError"} -> Returned(StrOf(v))
      [] IntOutcome(v) = "OverflowError" ->
            Raised("OverflowError", <<"cannot convert float infinity to integer">>)
      [] OTHER ->
            LET val == IntOf(v)
                whole == FloorDivPow10(val, decimals)
                frac == ModPow10(val, decimals)
            IN Returned(IntCommaStr(whole) \o <<".">>
                   \o TakeFirst(ZFill(IntStr(frac), decimals), 2))

\* The default of formatUnits_py's decimals parameter.
Decimals == 18

\* Bounds of the arguments tried: a head of up to MaxHead characters followed
\* by a run of zeros of length 0 or 15..MaxZeros.
MaxHead == 3
MaxZeros == 23

UnitChars == {"0", "1", "5", "9", "-", "a", " "}

RECURSIVE Texts(_, _)
Texts(alphabet, n) ==
    IF n = 0 THEN {<<>>}
    ELSE LET shorter == Texts(alphabet, n - 1)
         IN shorter \cup {<<c>> \o s : c \in alphabet, s \in shorter}

UnitArgs ==
    {PyStr(h \o Repeat("0", k)) :
        h \in Texts(UnitChars, MaxHead), k \in {0} \cup (15..MaxZeros)}
        \cup {PyNone, PyNaN, PyInf(FALSE), PyInf(TRUE),
              PyInt(FALSE, <<1, 5>> \o Repeat(0, 20))}

\* ---------------------------------------------------------- json.loads

Quote == "\""

\* The outcome of a parse step: a value and the index after it, or the
\* JSONDecodeError's message.
Parsed(val, next) == [ok |-> TRUE, val |-> val, next |-> next]
DecodeError(msg, at) == [ok |-> FALSE, msg |-> msg, at |-> at]

RECURSIVE SkipWs(_, _)
SkipWs(s, i) ==
    IF i <= Len(s) /\ s[i] \in Whitespace THEN SkipWs(s, i + 1) ELSE i

\* The index of the first Quote at or after i (Len(s) + 1 when there is none).
RECURSIVE FindQuote(_, _)
FindQuote(s, i) ==
    IF i > Len(s) \/ s[i] = Quote THEN i ELSE FindQuote(s, i + 1)

\* The index after the run of digits that starts at i.
RECURSIVE SkipDigits(_, _)
SkipDigits(s, i) ==
    IF i <= Len(s) /\ IsDigit(s[i]) THEN SkipDigits(s, i + 1) ELSE i

DigitsOf(s, from, to) == [k \in 1..(to - from + 1) |-> DigitVal(s[from + k - 1])]

\* A string whose opening quote is at i - 1.
ParseString(s, i) ==
    LET k == FindQuote(s, i)
    IN IF k > Len(s)
       THEN DecodeError("Unterminated string starting at", i - 1)
       ELSE Parsed(PyStr(SubSeq(s, i, k - 1)), k + 1)

\* A number whose first digit is at i: 0 or a digit run without a leading
\* zero, then an optional fraction.
ParseNumber(s, i, neg) ==
    LET e == IF s[i] = "0" THEN i + 1 ELSE SkipDigits(s, i)
        f == IF e + 1 <= Len(s) /\ s[e] = "." /\ IsDigit(s[e + 1])
             THEN SkipDigits(s, e + 1)
             ELSE e
    IN IF f = e
       THEN Parsed(PyInt(neg /\ DigitsOf(s, i, e - 1) # <<0>>,
                         DigitsOf(s, i, e - 1)), e)
       ELSE Parsed(PyFloat(neg, DigitsOf(s, i, e - 1),
                           DigitsOf(s, e + 1, f - 1)), f)

RECURSIVE ParseValue(_, _)
RECURSIVE ParseMembers(_, _, _)
RECURSIVE ParseElements(_, _, _)

\* The members of an object after "{" or ",": i is at the next key.
ParseMembers(s, i, acc) ==
    IF i > Len(s) \/ s[i] # Quote
    THEN DecodeError("Expecting property name enclosed in double quotes", i)
    ELSE LET key == ParseString(s, i + 1)
         IN IF ~key.ok THEN key
            ELSE LET c == SkipWs(s, key.next)
                 IN IF c > Len(s) \/ s[c] # ":"
                    THEN DecodeError("Expecting ':' delimiter", c)
                    ELSE LET v == ParseValue(s, c + 1)
                         IN IF ~v.ok THEN v
                            ELSE LET d == (key.val.s :> v.val) @@ acc
                                     n == SkipWs(s, v.next)
                                 IN IF n <= Len(s) /\ s[n] = "}"
                                    THEN Parsed(PyDict(d), n + 1)
                                    ELSE IF n <= Len(s) /\ s[n] = ","
                                    THEN ParseMembers(s, SkipWs(s, n + 1), d)
                                    ELSE DecodeError("Expecting ',' delimiter", n)

\* The elements of an array after "[" or ",": i is at the next value.
ParseElements(s, i, acc) ==
    LET v == ParseValue(s, i)
    IN IF ~v.ok THEN v
       ELSE LET n == SkipWs(s, v.next)
            IN IF n <= Len(s) /\ s[n] = "]"
               THEN Parsed(PyList(Append(acc, v.val)), n + 1)
               ELSE IF n <= Len(s) /\ s[n] = ","
               THEN ParseElements(s, n + 1, Append(acc, v.val))
               ELSE DecodeError("Expecting ',' delimiter", n)

\* The value that starts at or after i.  Python's decoder also takes the
\* literals NaN, Infinity and -Infinity.
ParseValue(s, i) ==
    LET j == SkipWs(s, i)
    IN IF j > Len(s) THEN DecodeError("Expecting value", j)
       ELSE CASE s[j] = Quote -> ParseString(s, j + 1)
              [] s[j] = "{" ->
                    LET k == SkipWs(s, j + 1)
                    IN IF k <= Len(s) /\ s[k] = "}"
                       THEN Parsed(EmptyDict, k + 1)
                       ELSE ParseMembers(s, k, <<>>)
              [] s[j] = "[" ->
                    LET k == SkipWs(s, j + 1)
                    IN IF k <= Len(s) /\ s[k] = "]"
                       THEN Parsed(PyList(<<>>), k + 1)
                       ELSE ParseElements(s, j + 1, <<>>)
              [] s[j] = "null" -> Parsed(PyNone, j + 1)
              [] s[j] = "true" -> Parsed(PyBool(TRUE), j + 1)
              [] s[j] = "false" -> Parsed(PyBool(FALSE), j + 1)
              [] s[j] = "NaN" -> Parsed(PyNaN, j + 1)
              [] s[j] = "Infinity" -> Parsed(PyInf(FALSE), j + 1)
              [] s[j] = "-" /\ j < Len(s) /\ s[j + 1] = "Infinity" ->
                    Parsed(PyInf(TRUE), j + 2)
              [] s[j] = "-" /\ j < Len(s) /\ IsDigit(s[j + 1]) ->
                    ParseNumber(s, j + 1, TRUE)
              [] IsDigit(s[j]) -> ParseNumber(s, j, FALSE)
              [] OTHER -> DecodeError("Expecting value", j)

\* json.loads(text): one value, then nothing but whitespace.
JsonLoads(text) ==
    LET v == ParseValue(text, 1)
    IN IF ~v.ok THEN v
       ELSE IF SkipWs(text, v.next) <= Len(text)
       THEN DecodeError("Extra data", SkipWs(text, v.next))
       ELSE v

\* ------------------------------------------------------- fence removal

Fence == <<Backtick, Backtick, Backtick>>

\* The index of the first Fence at or after i (0 when there is none).
RECURSIVE FindFence(_, _)
FindFence(s, i) ==
    IF i + 2 > Len(s) THEN 0
    ELSE IF SubSeq(s, i, i + 2) = Fence THEN i
    ELSE FindFence(s, i + 1)

\* text.split(Fence)[1] of a text that starts with a Fence: what lies between
\* the opening Fence and the next one, or the end.
SplitFenceSecond(s) ==
    LET k == FindFence(s, 4)
    IN IF k = 0 THEN DropFirst(s, 3) ELSE SubSeq(s, 4, k - 1)

JsonTag == <<"j", "s", "o", "n">>

\* The text handed to json.loads: the reply stripped, and for a reply that
\* starts with a Fence, its second split part without a leading json tag,
\* stripped again.
Unfenced(raw) ==
    LET text == Strip(raw)
    IN IF StartsWith(text, Fence)
       THEN LET part == SplitFenceSecond(text)
            IN Strip(IF StartsWith(part, JsonTag) THEN DropFirst(part, 4) ELSE part)
       ELSE text

\* ------------------------------------------------------ prompt helpers

\* Characters a TLA+ string cannot hold.
EmDash == "<em dash>"
Arrow == "<rightwards arrow>"

Key(name) == <<name>>

IsDict(v) == v.t = "dict"

\* d.get(name, default) of a dict
Get(v, name, default) ==
    IF Key(name) \in DOMAIN v.d THEN v.d[Key(name)] ELSE default

\* d.get(name): None when the key is missing
GetOrNone(v, name) == Get(v, name, PyNone)

\* bool(v)
Truthy(v) ==
    CASE v.t = "None" -> FALSE
      [] v.t = "bool" -> v.b
      [] v.t = "int" -> v.mag # <<0>>
      [] v.t = "float" -> Canon(v.int) # <<0>> \/ Canon(v.frac) # <<0>>
      [] v.t = "str" -> v.s # <<>>
      [] v.t = "list" -> v.l # <<>>
      [] v.t = "dict" -> DOMAIN v.d # {}
      [] OTHER -> TRUE

\* type(v).__name__
TypeName(v) ==
    CASE v.t = "None" -> "NoneType"
      [] v.t \in {"nan", "inf"} -> "float"
      [] OTHER -> v.t

\* The failure of v.get(...), v.upper() on a value without that attribute.
NoAttribute(v, attr) ==
    Raised("AttributeError",
           <<TypeName(v), "object has no attribute", attr>>)

\* The failure of format(v, ".Nf") on a value that is no number.
NoFloatFormat(v) ==
    IF v.t = "str"
    THEN Raised("ValueError", <<"Unknown format code 'f' for object of type 'str'">>)
    ELSE Raised("TypeError",
                <<"unsupported format string passed to", TypeName(v), ".__format__">>)

IsNumber(v) == v.t \in {"int", "bool", "float", "nan", "inf"}

\* format(v, ".Nf") or format(v, ",.Nf") of a number.  A float with more
\* than `places` fractional digits is rounded by Python; its digits are not
\* spelled out here.
FixedText(v, places, comma) ==
    LET zeros == IF places = 0 THEN <<>> ELSE <<".">> \o Repeat("0", places)
        int == IF comma THEN IntCommaStr(IntOf(v)) ELSE IntStr(IntOf(v))
    IN CASE v.t \in {"int", "bool"} -> int \o zeros
         [] v.t = "nan" -> <<"nan">>
         [] v.t = "inf" -> IF v.neg THEN <<"-inf">> ELSE <<"inf">>
         [] v.t = "float" /\ places > 0 /\ Len(v.frac) <= places ->
               (IF v.neg THEN <<"-">> ELSE <<>>)
                   \o (IF comma THEN Grouped(DigitText(Canon(v.int)))
                       ELSE DigitText(Canon(v.int)))
                   \o <<".">> \o DigitText(v.frac)
                   \o Repeat("0", places - Len(v.frac))
         [] OTHER -> <<"<rounded float>">>

\* str.upper(); the texts used here hold lower-case words and characters.
Upper(s) ==
    [i \in 1..Len(s) |->
        CASE s[i] = "unknown" -> "UNKNOWN"
          [] s[i] = "ok" -> "OK"
          [] s[i] = "warning" -> "WARNING"
          [] s[i] = "critical" -> "CRITICAL"
          [] s[i] = "execute" -> "EXECUTE"
          [] s[i] = "wait" -> "WAIT"
          [] OTHER -> s[i]]

\* The first failure of a sequence of checks, each FALSE-raised when it
\* passes; Returned(<<>>) when all pass.
RECURSIVE FirstRaise(_)
FirstRaise(checks) ==
    IF checks = <<>> THEN Returned(<<>>)
    ELSE IF Head(checks).raised THEN Head(checks)
    ELSE FirstRaise(Tail(checks))

Pass == Returned(<<>>)

\* "\n".join(lines), each line a sequence of pieces
RECURSIVE JoinLines(_)
JoinLines(lines) ==
    IF lines = <<>> THEN <<>>
    ELSE IF Len(lines) = 1 THEN Concat(Head(lines))
    ELSE Concat(Head(lines)) \o <<"\n">> \o JoinLines(Tail(lines))

\* The items a for loop over v visits, as texts; the keys of a dict are not
\* spelled out.
Items(v) ==
    CASE v.t = "list" -> [i \in 1..Len(v.l) |-> StrOf(v.l[i])]
      [] v.t = "str" -> [i \in 1..Len(v.s) |-> <<v.s[i]>>]
      [] OTHER -> << <<"<keys of dict>">> >>

IsIterable(v) == v.t \in {"list", "str", "dict"}

NotIterable(v) ==
    Raised("TypeError", <<TypeName(v), "object is not iterable">>)

\* ------------------------------------------------------- _format_prompt

\* The sub-objects _format_prompt reads, each with its default.
Staking(d) == Get(d, "staking", EmptyDict)
Rewards(d) == Get(d, "rewards", EmptyDict)
Morpho(d) == Get(d, "morpho", EmptyDict)
Queue(d) == Get(d, "queue", EmptyDict)
Community(d) == Get(Staking(d), "community", EmptyDict)
Operator(d) == Get(Staking(d), "operator", EmptyDict)

Zero == PyInt(FALSE, <<0>>)
Placeholder == PyStr(<<"?">>)

\* The checks _format_prompt makes, in the order it evaluates them.
PromptChecks(d) ==
    LET needDict(v) == IF IsDict(v) THEN Pass ELSE NoAttribute(v, "get")
        needNum(v) == IF IsNumber(v) THEN Pass ELSE NoFloatFormat(v)
        optNum(v) == IF v.t = "None" \/ IsNumber(v) THEN Pass ELSE NoFloatFormat(v)
        risk == Get(d, "overallRisk", PyStr(<<"unknown">>))
        alerts == Get(d, "alerts", PyList(<<>>))
    IN IF ~IsDict(d) THEN <<NoAttribute(d, "get")>>
       ELSE IF ~IsDict(Staking(d)) THEN <<NoAttribute(Staking(d), "get")>>
       ELSE IF ~IsDict(Morpho(d)) THEN <<NoAttribute(Morpho(d), "get")>>
       ELSE IF ~IsDict(Queue(d))
       THEN <<optNum(GetOrNone(Morpho(d), "utilization")),
              optNum(GetOrNone(Morpho(d), "vaultTvlUsd")),
              NoAttribute(Queue(d), "get")>>
       ELSE <<optNum(GetOrNone(Morpho(d), "utilization")),
              optNum(GetOrNone(Morpho(d), "vaultTvlUsd")),
              optNum(GetOrNone(Queue(d), "queueLink")),
              IF risk.t = "str" THEN Pass ELSE NoAttribute(risk, "upper"),
              needDict(Community(d)),
              IF IsDict(Community(d))
              THEN needNum(Get(Community(d), "fillPct", Zero)) ELSE Pass,
              needDict(Operator(d)),
              IF IsDict(Operator(d))
              THEN needNum(Get(Operator(d), "fillPct", Zero)) ELSE Pass,
              needDict(Rewards(d)),
              IF IsDict(Rewards(d))
              THEN needNum(Get(Rewards(d), "runwayDays", Zero)) ELSE Pass,
              IF ~Truthy(alerts) \/ IsIterable(alerts)
              THEN Pass ELSE NotIterable(alerts)>>

\* The lines _format_prompt builds for a snapshot that passes PromptChecks,
\* each line a sequence of pieces.
PromptLines(d) ==
    LET morpho_util == GetOrNone(Morpho(d), "utilization")
        util_str == IF morpho_util.t # "None"
                    THEN FixedText(morpho_util, 1, FALSE) \o <<"%">>
                    ELSE <<"unavailable">>
        tvl == GetOrNone(Morpho(d), "vaultTvlUsd")
        tvl_str == IF tvl.t # "None"
                   THEN <<"$">> \o FixedText(tvl, 0, TRUE)
                   ELSE <<"unavailable">>
        q == GetOrNone(Queue(d), "queueLink")
        q_str == IF q.t # "None"
                 THEN FixedText(q, 0, TRUE) \o <<" tokens">>
                 ELSE <<"unavailable">>
        alerts == Get(d, "alerts", PyList(<<>>))
        pool(label, p) ==
            <<label, StrOf(Get(p, "staked", Placeholder)), <<" / ">>,
              StrOf(Get(p, "cap", Placeholder)), <<" (">>,
              FixedText(Get(p, "fillPct", Zero), 1, FALSE),
              <<"% full) ", EmDash, " ">>,
              StrOf(Get(p, "risk", Placeholder))>>
    IN << <<<<"Timestamp: ">>, StrOf(Get(d, "timestamp", PyStr(<<"unknown">>)))>>,
          <<<<"Overall Risk: ">>,
            Upper(Get(d, "overallRisk", PyStr(<<"unknown">>)).s)>>,
          <<>>,
          <<<<"## Staking Pools">>>>,
          pool(<<"Pool A: ">>, Community(d)),
          pool(<<"Pool B: ">>, Operator(d)),
          <<>>,
          <<<<"## Reward Vault">>>>,
          <<<<"Balance: ">>, StrOf(Get(Rewards(d), "vaultBalance", Placeholder)),
            <<" tokens">>>>,
          <<<<"Emission: ">>, StrOf(Get(Rewards(d), "emissionPerDay", Placeholder)),
            <<" tokens/day">>>>,
          <<<<"Runway: ">>, FixedText(Get(Rewards(d), "runwayDays", Zero), 0, FALSE),
            <<" days ", EmDash, " ">>, StrOf(Get(Rewards(d), "risk", Placeholder))>>,
          <<>>,
          <<<<"## Lending Market">>>>,
          <<<<"Utilization: ">>, util_str, <<" ", EmDash, " ">>,
            StrOf(Get(Morpho(d), "risk", Placeholder))>>,
          <<<<"Vault TVL: ">>, tvl_str>>,
          <<>>,
          <<<<"## Priority Queue">>>>,
          <<<<"Queue Depth: ">>, q_str, <<" ", EmDash, " ">>,
            StrOf(Get(Queue(d), "risk", Placeholder))>>,
          <<>> >>
       \o (IF Truthy(alerts)
           THEN << <<<<"## Active Alerts">>>> >>
                    \o [i \in 1..Len(Items(alerts)) |-> <<<<"- ">>, Items(alerts)[i]>>]
           ELSE << <<<<"No active alerts.">>>> >>)

_format_prompt(d) ==
    IF FirstRaise(PromptChecks(d)).raised THEN FirstRaise(PromptChecks(d))
    ELSE Returned(JoinLines(PromptLines(d)))

\* --------------------------------------------------- _format_arb_prompt

MinusOne == PyInt(TRUE, <<1>>)

\* The integer 0, 1 or 2 a status equals, as dict.get finds it, or -1.
StatusIndex(v) ==
    CASE v.t = "int" /\ ~v.neg /\ v.mag \in {<<0>>, <<1>>, <<2>>} -> v.mag[1]
      [] v.t = "bool" -> IF v.b THEN 1 ELSE 0
      [] v.t = "float" /\ ~v.neg /\ Canon(v.frac) = <<0>>
            /\ Canon(v.int) \in {<<0>>, <<1>>, <<2>>} -> Canon(v.int)[1]
      [] OTHER -> -1

\* {0: "OPEN", 1: "DRAINING", 2: "CLOSED"}.get(pp_status, f"UNKNOWN({pp_status})")
StatusText(v) ==
    CASE StatusIndex(v) = 0 -> <<"OPEN">>
      [] StatusIndex(v) = 1 -> <<"DRAINING">>
      [] StatusIndex(v) = 2 -> <<"CLOSED">>
      [] OTHER -> <<"UNKNOWN(">> \o StrOf(v) \o <<")">>

\* The checks one premium quote passes through.
QuoteChecks(quotes) ==
    IF quotes.t = "list"
    THEN [i \in 1..Len(quotes.l) |->
            IF IsDict(quotes.l[i]) THEN Pass ELSE NoAttribute(quotes.l[i], "get")]
    ELSE IF quotes.t = "str"
    THEN [i \in 1..Len(quotes.s) |-> NoAttribute(PyStr(<<quotes.s[i]>>), "get")]
    ELSE IF quotes.t = "dict"
    THEN IF Truthy(quotes) THEN <<NoAttribute(PyStr(<<>>), "get")>> ELSE <<>>
    ELSE <<NotIterable(quotes)>>

\* The checks _format_arb_prompt makes, in the order it evaluates them.
ArbChecks(d) ==
    LET signal == Get(d, "signal", PyStr(<<"unknown">>))
        pool == Get(d, "poolState", EmptyDict)
        pp_status == Get(d, "priorityPoolStatus", MinusOne)
        vault == GetOrNone(d, "vaultState")
        units(v) == IF formatUnits_py(v, Decimals).raised
                    THEN formatUnits_py(v, Decimals) ELSE Pass
    IN IF ~IsDict(d) THEN <<NoAttribute(d, "get")>>
       ELSE <<IF pp_status.t \in {"list", "dict"}
              THEN Raised("TypeError", <<"unhashable type:", TypeName(pp_status)>>)
              ELSE Pass,
              IF signal.t = "str" THEN Pass ELSE NoAttribute(signal, "upper"),
              IF IsDict(pool) THEN Pass ELSE NoAttribute(pool, "get"),
              IF ~IsDict(pool) \/ IsNumber(Get(pool, "imbalanceRatio", Zero))
              THEN Pass ELSE NoFloatFormat(Get(pool, "imbalanceRatio", Zero))>>
            \o QuoteChecks(Get(d, "premiumQuotes", PyList(<<>>)))
            \o <<units(Get(d, "priorityPoolQueued", PyStr(<<"0">>)))>>
            \o (IF ~Truthy(vault) THEN <<>>
                ELSE IF ~IsDict(vault) THEN <<NoAttribute(vault, "get")>>
                ELSE <<units(Get(vault, "totalStLINKHeld", PyStr(<<"0">>))),
                       units(Get(vault, "totalLINKQueued", PyStr(<<"0">>))),
                       units(Get(vault, "totalCapitalAssets", PyStr(<<"0">>)))>>)

\* The lines _format_arb_prompt builds for a snapshot that passes ArbChecks.
ArbLines(d) ==
    LET pool == Get(d, "poolState", EmptyDict)
        quotes == Get(d, "premiumQuotes", PyList(<<>>))
        vault == GetOrNone(d, "vaultState")
        units(v) == formatUnits_py(v, Decimals).text
        quote(q) ==
            <<<<"  ">>, StrOf(Get(q, "amountInFormatted", Placeholder)),
              <<" stLINK ", Arrow, " ">>,
              StrOf(Get(q, "amountOutFormatted", Placeholder)),
              <<" LINK (">>, StrOf(Get(q, "premiumBps", Zero)), <<" bps)">>>>
    IN << <<<<"Deterministic signal: ">>,
            Upper(Get(d, "signal", PyStr(<<"unknown">>)).s)>>,
          <<>>,
          <<<<"## Curve Pool State">>>>,
          <<<<"LINK balance: ">>,
            StrOf(Get(pool, "linkBalanceFormatted", Placeholder))>>,
          <<<<"stLINK balance: ">>,
            StrOf(Get(pool, "stLINKBalanceFormatted", Placeholder))>>,
          <<<<"Imbalance ratio (LINK/stLINK): ">>,
            FixedText(Get(pool, "imbalanceRatio", Zero), 4, FALSE)>>,
          <<>>,
          <<<<"## Premium Quotes (stLINK ", Arrow, " LINK)">>>> >>
       \o (IF quotes.t = "list"
           THEN [i \in 1..Len(quotes.l) |-> quote(quotes.l[i])]
           ELSE <<>>)
       \o << <<>>,
             <<<<"## Priority Pool">>>>,
             <<<<"Status: ">>, StatusText(Get(d, "priorityPoolStatus", MinusOne))>>,
             <<<<"Queued: ">>,
               units(Get(d, "priorityPoolQueued", PyStr(<<"0">>))), <<" LINK">>>> >>
       \o (IF Truthy(vault)
           THEN << <<>>,
                   <<<<"## Vault State">>>>,
                   <<<<"stLINK held: ">>,
                     units(Get(vault, "totalStLINKHeld", PyStr(<<"0">>)))>>,
                   <<<<"LINK queued: ">>,
                     units(Get(vault, "totalLINKQueued", PyStr(<<"0">>)))>>,
                   <<<<"Cycle count: ">>,
                     StrOf(Get(vault, "cycleCount", PyStr(<<"0">>)))>>,
                   <<<<"Capital assets: ">>,
                     units(Get(vault, "totalCapitalAssets", PyStr(<<"0">>))),
                     <<" LINK">>>>,
                   <<<<"Min profit threshold: ">>,
                     StrOf(Get(vault, "minProfitBps", Placeholder)), <<" bps">>>> >>
           ELSE <<>>)

_format_arb_prompt(d) ==
    IF FirstRaise(ArbChecks(d)).raised THEN FirstRaise(ArbChecks(d))
    ELSE Returned(JoinLines(ArbLines(d)))

\* ------------------------------------------------------- JSON texts

\* A JSON string, member, object and array, as text.
JStr(chars) == <<Quote>> \o chars \o <<Quote>>
JMember(name, value) == JStr(<<name>>) \o <<":">> \o value

RECURSIVE JoinComma(_)
JoinComma(parts) ==
    IF parts = <<>> THEN <<>>
    ELSE IF Len(parts) = 1 THEN Head(parts)
    ELSE Head(parts) \o <<",">> \o JoinComma(Tail(parts))

JObj(members) == <<"{">> \o JoinComma(members) \o <<"}">>
JArr(elements) == <<"[">> \o JoinComma(elements) \o <<"]">>

\* ------------------------------------------------------------ requests

\* An optional value: a variable not yet assigned, a header not sent.
None == [some |-> FALSE]
Some(x) == [some |-> TRUE, val |-> x]

Endpoints == {"analyze", "analyze_arb"}

\* Mutant of KeyName: both handlers read the same variable.
KeyName_Shared(e) == "ANTHROPIC_API_KEY"

\* The environment variable each handler reads its credential from.
KeyName(e) == IF e = "analyze" THEN "ANTHROPIC_API_KEY" ELSE "OPENAI_API_KEY"

\* The keys of the result each system prompt asks for.
RequiredKeys(e) ==
    IF e = "analyze"
    THEN {Key("assessment"), Key("risk_label"), Key("atom_status"),
          Key("action_items"), Key("confidence")}
    ELSE {Key("recommendation"), Key("assessment"), Key("optimal_swap_size"),
          Key("risk_factors"), Key("confidence"), Key("reasoning")}

Secrets == {"", "s3cret"}
Headers == {None, Some(""), Some("s3cret"), Some("s3cret2")}
Credentials == {"", "sk-live"}

\* request.headers.get("X-CRE-Secret", "")
HeaderGet(h) == IF h.some THEN h.val ELSE ""

\* Mutant of Unauthorized: a request without the header passes.
Unauthorized_AbsentPasses(secret, h) == secret # "" /\ h.some /\ h.val # secret

\* if _CRE_SECRET: if request.headers.get(...) != _CRE_SECRET
Unauthorized(secret, h) == secret # "" /\ HeaderGet(h) # secret

\* request.get_json(force=True, silent=True) or {}
GetJsonOrEmpty(raw) ==
    LET parsed == JsonLoads(raw)
    IN IF parsed.ok /\ Truthy(parsed.val) THEN parsed.val ELSE EmptyDict

\* The formatter each handler hands its data to.
FormatFor(e, d) == IF e = "analyze" THEN _format_prompt(d) ELSE _format_arb_prompt(d)

\* The bodies tried.
TreasuryBody ==
    JObj(<<JMember("timestamp", JStr(<<"t1">>)),
           JMember("overallRisk", JStr(<<"warning">>)),
           JMember("alerts", JArr(<<JStr(<<"pool"," ","full">>)>>)),
           JMember("staking",
               JObj(<<JMember("community",
                          JObj(<<JMember("staked", JStr(<<"40.5M">>)),
                                 JMember("fillPct", <<"9", "5">>)>>))>>)),
           JMember("morpho", JObj(<<JMember("vaultTvlUsd", <<"1", "2", "5", "0">>)>>))>>)

ArbBody ==
    JObj(<<JMember("signal", JStr(<<"execute">>)),
           JMember("priorityPoolStatus", <<"1">>),
           JMember("priorityPoolQueued", JStr(<<"1", "5", "0", "0">> \o Repeat("0", 18))),
           JMember("premiumQuotes",
               JArr(<<JObj(<<JMember("amountInFormatted", JStr(<<"100">>)),
                             JMember("premiumBps", <<"7">>)>>)>>)),
           JMember("vaultState", JObj(<<JMember("cycleCount", <<"3">>)>>))>>)

Bodies ==
    {<<>>,
     <<"{", Quote, "timestamp", Quote>>,
     <<"hello">>,
     JObj(<<>>),
     JArr(<<>>),
     JArr(<<<<"1">>>>),
     <<"null">>,
     JObj(<<JMember("staking", <<"null">>)>>),
     JObj(<<JMember("priorityPoolQueued", <<"Infinity">>)>>),
     TreasuryBody,
     ArbBody}

\* The result texts a provider's reply is built around.
TreasuryMembers(assessment, confidence) ==
    <<JMember("assessment", JStr(assessment)),
      JMember("risk_label", JStr(<<"critical">>)),
      JMember("atom_status", JObj(<<JMember("pool", JStr(<<"critical">>))>>)),
      JMember("action_items", JArr(<<JStr(<<"pause", " ", "deposits">>)>>)),
      JMember("confidence", confidence)>>

ArbMembers ==
    <<JMember("recommendation", JStr(<<"wait">>)),
      JMember("assessment", JStr(<<"thin", " ", "premium">>)),
      JMember("optimal_swap_size", JStr(<<"5", "0", "0">>)),
      JMember("risk_factors", JArr(<<>>)),
      JMember("confidence", <<"0", ".", "6">>),
      JMember("reasoning", JStr(<<"below", " ", "threshold">>))>>

Results ==
    {JObj(TreasuryMembers(<<"pool", " ", "saturated">>, <<"0", ".", "9">>)),
     JObj(ArbMembers),
     \* without risk_label
     JObj(SubSeq(TreasuryMembers(<<"x">>, <<"1">>), 1, 1)
              \o SubSeq(TreasuryMembers(<<"x">>, <<"1">>), 3, 5)),
     \* without reasoning
     JObj(SubSeq(ArbMembers, 1, 5)),
     \* a string that holds a fence
     JObj(TreasuryMembers(<<"run", " ">> \o Fence \o <<"sh">> \o Fence, <<"1">>)),
     \* a string that begins with the letters json
     JObj(TreasuryMembers(JsonTag \o <<" ", "verdict">>, <<"1">>)),
     JObj(TreasuryMembers(<<"x">>, <<"NaN">>)),
     JObj(<<>>),
     JArr(<<<<"1">>>>),
     <<"{", Quote, "assessment", Quote>>,
     <<"Sorry", ",", " ", "no", " ", "data">>,
     <<>>}

\* Whitespace put around a reply: up to MaxPad newlines.
MaxPad == 1

\* The fenced form of a text: a fence, the tag, a newline, the text, a
\* newline, a fence.
Fenced(tag, text) == Fence \o tag \o <<"\n">> \o text \o <<"\n">> \o Fence

Wrappings(text) ==
    {text,
     Fenced(JsonTag, text),
     Fenced(<<>>, text),
     Fence \o JsonTag \o <<"\n">> \o text,
     <<"Here", " ", "it", " ", "is", ":", "\n">> \o Fenced(JsonTag, text),
     Fenced(JsonTag, text) \o <<"\n", "Done", ".">>}

Replies ==
    UNION {{Repeat("\n", n) \o w \o Repeat(" ", n) : w \in Wrappings(j)} :
              j \in Results, n \in 0..MaxPad}

\* Failures of the provider call: create() raises, or its response holds
\* no text block.
ProviderErrors ==
    {<<"Connection error.">>, <<"Error code: 529">>,
     <<"list index out of range">>}

\* The text json.loads is given for a reply.
Validate(raw) == JsonLoads(Unfenced(raw))

ErrorBody(msg) == PyDict(Key("error") :> PyStr(msg))

ParseErrorBody(detail) ==
    PyDict(Key("error") :> PyStr(<<"parse error">>) @@ Key("detail") :> PyStr(detail))

Http(status, payload) == [status |-> status, body |-> payload]

\* The response to a request whose provider call returned `raw`.
ReplyResponse(raw) ==
    LET parsed == Validate(raw)
    IN IF ~parsed.ok THEN Http(500, ParseErrorBody(<<parsed.msg>>))
       ELSE IF ~IsDict(parsed.val)
       THEN Http(500, ErrorBody(NoAttribute(parsed.val, "get").msg))
       ELSE Http(200, parsed.val)

\* ------------------------------------------------------------ handlers

Stages ==
    {"Unauthenticated", "Authorized", "Parsed", "Invoked", "Validated",
     "Responded"}

\* The variables of the formatUnits_py and _format_prompt calls, at rest.
UnitsIdle ==
    /\ value_str = PyStr(<<>>)
    /\ formatted = None

PromptIdle ==
    /\ snapshot = EmptyDict
    /\ rendered = None

\* A request arrives at one of the two routes.
RequestInit ==
    /\ CRE_SECRET \in Secrets
    /\ environ \in [{"ANTHROPIC_API_KEY", "OPENAI_API_KEY"} -> Credentials]
    /\ endpoint \in Endpoints
    /\ header \in Headers
    /\ body \in Bodies
    /\ stage = "Unauthenticated"
    /\ data = None
    /\ prompt = None
    /\ invocations = 0
    /\ reply = None
    /\ result = None
    /\ response = None
    /\ responses = 0

Init == RequestInit /\ UnitsIdle /\ PromptIdle

\* return jsonify(payload), status
Respond(status, payload) ==
    /\ response' = Some(Http(status, payload))
    /\ responses' = responses + 1
    /\ stage' = "Responded"

\* The shared-secret check that opens analyze and analyze_arb.
Authorize ==
    /\ stage = "Unauthenticated"
    /\ IF Unauthorized(CRE_SECRET, header)
       THEN Respond(401, ErrorBody(<<"unauthorized">>))
       ELSE /\ stage' = "Authorized"
            /\ UNCHANGED <<response, responses>>
    /\ UNCHANGED <<CRE_SECRET, environ, endpoint, header, body, data, prompt,
                   invocations, reply, result, unitsVars, promptVars>>

\* data = request.get_json(force=True, silent=True) or {}
ParseBody ==
    /\ stage = "Authorized"
    /\ data' = Some(GetJsonOrEmpty(body))
    /\ stage' = "Parsed"
    /\ UNCHANGED <<CRE_SECRET, environ, endpoint, header, body, prompt,
                   invocations, reply, result, response, responses,
                   unitsVars, promptVars>>

\* Mutant of CallProvider: the provider is called before the credential is
\* looked at.
CallProvider_BeforeCheck ==
    /\ stage = "Parsed"
    /\ IF FormatFor(endpoint, data.val).raised
       THEN /\ Respond(500, ErrorBody(FormatFor(endpoint, data.val).msg))
            /\ UNCHANGED <<prompt, invocations>>
       ELSE /\ prompt' = Some(FormatFor(endpoint, data.val).text)
            /\ invocations' = invocations + 1
            /\ IF environ[KeyName(endpoint)] = ""
               THEN Respond(503, ErrorBody(<<KeyName(endpoint), " not set">>))
               ELSE /\ stage' = "Invoked"
                    /\ UNCHANGED <<response, responses>>
    /\ UNCHANGED <<CRE_SECRET, environ, endpoint, header, body, data, reply,
                   result, unitsVars, promptVars>>

\* The credential check, and the call of the provider with the prompt
\* rendered from data: the call is entered only when the formatter returns.
CallProvider ==
    /\ stage = "Parsed"
    /\ IF environ[KeyName(endpoint)] = ""
       THEN /\ Respond(503, ErrorBody(<<KeyName(endpoint), " not set">>))
            /\ UNCHANGED <<prompt, invocations>>
       ELSE IF FormatFor(endpoint, data.val).raised
       THEN /\ Respond(500, ErrorBody(FormatFor(endpoint, data.val).msg))
            /\ UNCHANGED <<prompt, invocations>>
       ELSE /\ prompt' = Some(FormatFor(endpoint, data.val).text)
            /\ invocations' = invocations + 1
            /\ stage' = "Invoked"
            /\ UNCHANGED <<response, responses>>
    /\ UNCHANGED <<CRE_SECRET, environ, endpoint, header, body, data, reply,
                   result, unitsVars, promptVars>>

\* The provider returns a text: strip it, remove its fence, json.loads.
ProviderReturns ==
    /\ stage = "Invoked"
    /\ \E raw \in Replies :
        /\ reply' = Some(raw)
        /\ IF Validate(raw).ok
           THEN /\ result' = Some(Validate(raw).val)
                /\ stage' = "Validated"
                /\ UNCHANGED <<response, responses>>
           ELSE /\ Respond(500, ParseErrorBody(<<Validate(raw).msg>>))
                /\ UNCHANGED result
    /\ UNCHANGED <<CRE_SECRET, environ, endpoint, header, body, data, prompt,
                   invocations, unitsVars, promptVars>>

\* Mutant of ProviderRaises: a failed call is tried again, up to three times.
ProviderRaises_Retry ==
    /\ stage = "Invoked"
    /\ IF invocations < 3
       THEN /\ invocations' = invocations + 1
            /\ UNCHANGED <<stage, response, responses>>
       ELSE /\ \E msg \in ProviderErrors : Respond(500, ErrorBody(msg))
            /\ UNCHANGED invocations
    /\ UNCHANGED <<CRE_SECRET, environ, endpoint, header, body, data, prompt,
                   reply, result, unitsVars, promptVars>>

\* The provider call fails: except Exception.
ProviderRaises ==
    /\ stage = "Invoked"
    /\ \E msg \in ProviderErrors : Respond(500, ErrorBody(msg))
    /\ UNCHANGED <<CRE_SECRET, environ, endpoint, header, body, data, prompt,
                   invocations, reply, result, unitsVars, promptVars>>

\* logger.info(..., result.get(...)) and return jsonify(result), 200
Relay ==
    /\ stage = "Validated"
    /\ IF IsDict(result.val)
       THEN Respond(200, result.val)
       ELSE Respond(500, ErrorBody(NoAttribute(result.val, "get").msg))
    /\ UNCHANGED <<CRE_SECRET, environ, endpoint, header, body, data, prompt,
                   invocations, reply, result, unitsVars, promptVars>>

\* The next request: nothing of the last one is kept.
Receive ==
    /\ stage = "Responded"
    /\ endpoint' \in Endpoints
    /\ header' \in Headers
    /\ body' \in Bodies
    /\ stage' = "Unauthenticated"
    /\ data' = None
    /\ prompt' = None
    /\ invocations' = 0
    /\ reply' = None
    /\ result' = None
    /\ response' = None
    /\ responses' = 0
    /\ UNCHANGED <<CRE_SECRET, environ, unitsVars, promptVars>>

Next ==
    \/ Authorize
    \/ ParseBody
    \/ CallProvider
    \/ ProviderReturns
    \/ ProviderRaises
    \/ Relay
    \/ Receive

Spec == Init /\ [][Next]_vars

\* ------------------------------------------- calls of formatUnits_py

\* The request variables, at rest while a function is called on its own.
RequestIdle ==
    /\ CRE_SECRET = ""
    /\ environ = [k \in {"ANTHROPIC_API_KEY", "OPENAI_API_KEY"} |-> ""]
    /\ endpoint = "analyze_arb"
    /\ header = None
    /\ body = <<>>
    /\ stage = "Unauthenticated"
    /\ data = None
    /\ prompt = None
    /\ invocations = 0
    /\ reply = None
    /\ result = None
    /\ response = None
    /\ responses = 0

\* formatUnits_py is about to be called with an argument.
UnitsInit ==
    /\ RequestIdle
    /\ PromptIdle
    /\ value_str \in UnitArgs
    /\ formatted = None

\* The call formatUnits_py(value_str), with the default decimals.
FormatUnitsCall ==
    /\ ~formatted.some
    /\ formatted' = Some(formatUnits_py(value_str, Decimals))
    /\ UNCHANGED <<requestVars, promptVars, value_str>>

UnitsNext == FormatUnitsCall

SpecUnits == UnitsInit /\ [][UnitsNext]_vars

\* ------------------------------------------- calls of _format_prompt

\* The dict with the given <<name, value>> pairs.
RECURSIVE DictOf(_)
DictOf(pairs) ==
    IF pairs = <<>> THEN EmptyDict
    ELSE PyDict((Key(Head(pairs)[1]) :> Head(pairs)[2]) @@ DictOf(Tail(pairs)).d)

Num(ds) == PyInt(FALSE, ds)
Word(w) == PyStr(<<w>>)

PoolSnapshot(staked, fill, risk) ==
    DictOf(<< <<"staked", Word(staked)>>, <<"cap", Word("45.0M")>>,
              <<"fillPct", Num(fill)>>, <<"risk", Word(risk)>> >>)

\* A TreasurySnapshot with every field present.
FullSnapshot ==
    DictOf(<< <<"timestamp", Word("2026-03-01T00:00:00Z")>>,
              <<"overallRisk", Word("warning")>>,
              <<"alerts", PyList(<<Word("community pool saturated")>>)>>,
              <<"staking",
                DictOf(<< <<"community", PoolSnapshot("45.0M", <<1, 0, 0>>, "critical")>>,
                          <<"operator", PoolSnapshot("2.1M", <<8, 4>>, "ok")>> >>)>>,
              <<"rewards",
                DictOf(<< <<"vaultBalance", Word("1.2M")>>,
                          <<"emissionPerDay", Word("9,600")>>,
                          <<"runwayDays", Num(<<1, 2, 5>>)>>,
                          <<"risk", Word("ok")>> >>)>>,
              <<"morpho",
                DictOf(<< <<"utilization", Num(<<9, 1>>)>>,
                          <<"vaultTvlUsd", Num(<<1, 2, 5, 0, 0, 0, 0>>)>>,
                          <<"risk", Word("warning")>> >>)>>,
              <<"queue",
                DictOf(<< <<"queueLink", Num(<<4, 2, 0, 0>>)>>,
                          <<"risk", Word("warning")>> >>)>> >>)

\* The optional fields and sub-objects of a TreasurySnapshot, as key paths.
PoolFields == {"staked", "cap", "fillPct", "risk"}

SnapshotPaths ==
    {<<k>> : k \in {"timestamp", "overallRisk", "alerts", "staking",
                    "rewards", "morpho", "queue"}}
        \cup {<<"staking", p>> : p \in {"community", "operator"}}
        \cup {<<"staking", p, f>> : p \in {"community", "operator"}, f \in PoolFields}
        \cup {<<"rewards", f>> :
                 f \in {"vaultBalance", "emissionPerDay", "runwayDays", "risk"}}
        \cup {<<"morpho", f>> : f \in {"utilization", "vaultTvlUsd", "risk"}}
        \cup {<<"queue", f>> : f \in {"queueLink", "risk"}}

\* Whether the key path leads to a value of d.
RECURSIVE Present(_, _)
Present(d, path) ==
    /\ IsDict(d)
    /\ Key(Head(path)) \in DOMAIN d.d
    /\ Len(path) = 1 \/ Present(d.d[Key(Head(path))], Tail(path))

\* d without the value the key path leads to.
RECURSIVE Without(_, _)
Without(d, path) ==
    IF ~Present(d, path) THEN d
    ELSE IF Len(path) = 1
    THEN PyDict([k \in DOMAIN d.d \ {Key(Head(path))} |-> d.d[k]])
    ELSE PyDict([d.d EXCEPT ![Key(Head(path))] = Without(@, Tail(path))])

\* The snapshots tried: the full one with up to MaxAbsent fields or
\* sub-objects taken out, and the empty object.
MaxAbsent == 2

RECURSIVE SnapshotsWithout(_)
SnapshotsWithout(n) ==
    IF n = 0 THEN {FullSnapshot}
    ELSE LET fewer == SnapshotsWithout(n - 1)
         IN fewer \cup {Without(d, p) : d \in fewer, p \in SnapshotPaths}

Snapshots == SnapshotsWithout(MaxAbsent) \cup {EmptyDict}

\* _format_prompt is about to be called with a snapshot.
PromptInit ==
    /\ RequestIdle
    /\ UnitsIdle
    /\ snapshot \in Snapshots
    /\ rendered = None

\* The call _format_prompt(snapshot).
FormatPromptCall ==
    /\ ~rendered.some
    /\ rendered' = Some(_format_prompt(snapshot))
    /\ UNCHANGED <<requestVars, unitsVars, snapshot>>

PromptNext == FormatPromptCall

SpecPrompt == PromptInit /\ [][PromptNext]_vars

\* ------------------------------------------------- claims: the handlers

\* The current request passes the shared-secret check.
SecretMatches == CRE_SECRET = "" \/ (header.some /\ header.val = CRE_SECRET)

\* The credential of the current request's own provider.
OwnCredential ==
    IF endpoint = "analyze"
    THEN environ["ANTHROPIC_API_KEY"]
    ELSE environ["OPENAI_API_KEY"]

Responded == stage = "Responded"

\* C1: a 200 response always carries every required key of the endpoint's
\* result schema; a reply that parses but misses one is not relayed.
C1_RelayedResultHasRequiredKeys ==
    (Responded /\ response.val.status = 200)
        => RequiredKeys(endpoint) \subseteq DOMAIN response.val.body.d

\* C2: with a secret configured, a request whose X-CRE-Secret header is
\* absent or different is answered 401 {"error": "unauthorized"}, its body
\* is never parsed, no prompt is made and the provider is never invoked;
\* with no secret configured, no request is answered 401.
C2_SecretGate ==
    /\ (CRE_SECRET # "" /\ (~header.some \/ header.val # CRE_SECRET))
        => /\ stage \in {"Unauthenticated", "Responded"}
           /\ ~data.some
           /\ ~prompt.some
           /\ invocations = 0
           /\ ~reply.some
           /\ Responded =>
                response.val =
                    [status |-> 401,
                     body |-> PyDict(Key("error") :> PyStr(<<"unauthorized">>))]
    /\ (CRE_SECRET = "" /\ response.some) => response.val.status # 401

\* A configured secret, no header, whatever the credentials: answered 401.
C2_Witness ==
    /\ Responded
    /\ CRE_SECRET = "s3cret"
    /\ ~header.some
    /\ body = ArbBody
    /\ environ["OPENAI_API_KEY"] # ""
    /\ response.val.status = 401

\* C3: an authorized request whose own credential is empty is answered 503
\* {"error": "<name> not set"} without invoking the provider, whatever the
\* other credential is; a set credential never gives a 503.
C3_MissingCredential ==
    /\ OwnCredential = ""
        => invocations = 0 /\ ~prompt.some /\ ~reply.some
    /\ (Responded /\ SecretMatches /\ OwnCredential = "")
        => response.val =
              [status |-> 503,
               body |-> PyDict(Key("error") :>
                   PyStr(<<IF endpoint = "analyze" THEN "ANTHROPIC_API_KEY"
                           ELSE "OPENAI_API_KEY", " not set">>))]
    /\ (Responded /\ OwnCredential # "") => response.val.status # 503

\* analyze_arb without its OpenAI key while the Anthropic key is set.
C3_Witness ==
    /\ Responded
    /\ endpoint = "analyze_arb"
    /\ environ["OPENAI_API_KEY"] = ""
    /\ environ["ANTHROPIC_API_KEY"] # ""
    /\ response.val.status = 503
    /\ invocations = 0

\* Whether a parsed value holds a NaN or an infinity, which JSON has no
\* syntax for.
RECURSIVE HoldsNonFinite(_)
HoldsNonFinite(v) ==
    CASE v.t \in {"nan", "inf"} -> TRUE
      [] v.t = "list" -> \E i \in 1..Len(v.l) : HoldsNonFinite(v.l[i])
      [] v.t = "dict" -> \E k \in DOMAIN v.d : HoldsNonFinite(v.d[k])
      [] OTHER -> FALSE

\* The text is syntactically valid JSON.
ValidJson(text) == JsonLoads(text).ok /\ ~HoldsNonFinite(JsonLoads(text).val)

\* C4: a reply that, trimmed and unfenced, is not syntactically valid JSON
\* is answered 500 {"error": "parse error", "detail": ...}, never 200.
C4_InvalidJsonIsParseError ==
    (Responded /\ reply.some /\ ~ValidJson(Unfenced(reply.val)))
        => /\ response.val.status = 500
           /\ DOMAIN response.val.body.d = {Key("error"), Key("detail")}
           /\ response.val.body.d[Key("error")] = PyStr(<<"parse error">>)

\* C5: the fenced form of a JSON text that validates unfenced gives the
\* same response as the text itself.
C5_FencedEqualsUnfenced ==
    \A j \in Results :
        (/\ Responded
         /\ reply.some
         /\ reply.val \in {Fenced(JsonTag, j), Fenced(<<>>, j)}
         /\ ReplyResponse(j).status = 200)
            => response.val = ReplyResponse(j)

\* C7: the stages follow the handler's order, or exit to a response.
C7_Order ==
    {<<"Unauthenticated", "Authorized">>, <<"Authorized", "Parsed">>,
     <<"Parsed", "Invoked">>, <<"Invoked", "Validated">>,
     <<"Validated", "Responded">>,
     <<"Unauthenticated", "Responded">>, <<"Parsed", "Responded">>,
     <<"Invoked", "Responded">>,
     <<"Responded", "Unauthenticated">>}

C7_Step ==
    /\ <<stage, stage'>> \in C7_Order
    \* the provider is entered once, authorized and with its credential
    /\ invocations' # invocations =>
          \/ /\ stage = "Parsed" /\ stage' = "Invoked"
             /\ invocations = 0 /\ invocations' = 1
             /\ SecretMatches /\ OwnCredential # "" /\ data.some
          \/ stage = "Responded" /\ invocations' = 0
    \* a response is produced once, and ends the request
    /\ (stage # "Responded" /\ response' # response) =>
          /\ ~response.some /\ response'.some
          /\ responses' = 1
          /\ stage' = "Responded"
    \* a 200 follows an invocation and a parsed reply
    /\ (stage # "Responded" /\ response'.some /\ response'.val.status = 200) =>
          /\ stage = "Validated"
          /\ invocations = 1 /\ reply.some /\ result.some
    \* after the response, only a fresh request
    /\ stage = "Responded" =>
          /\ stage' = "Unauthenticated"
          /\ responses' = 0 /\ ~response'.some
          /\ invocations' = 0 /\ ~data'.some /\ ~prompt'.some
          /\ ~reply'.some /\ ~result'.some

C7_Positions ==
    /\ stage \in Stages
    /\ responses = (IF Responded THEN 1 ELSE 0)
    /\ response.some <=> Responded
    /\ invocations > 0 =>
          /\ stage \in {"Invoked", "Validated", "Responded"}
          /\ SecretMatches /\ OwnCredential # ""
    /\ data.some <=> (stage \in {"Parsed", "Invoked", "Validated"}
                        \/ (Responded /\ response.val.status # 401))
    /\ result.some => reply.some /\ invocations = 1

\* C7: every request passes Unauthenticated, Authorized, Parsed, Invoked,
\* Validated, Responded in this order or exits early to a response; it
\* produces one response; the provider is invoked only once authorized and
\* with the credential present; a 200 follows an invocation and a parsed
\* reply; nothing happens after the response but the next request.
C7_StagesInOrder == []C7_Positions /\ [][C7_Step]_vars

\* A request that went through every stage to a 200.
C7_Witness ==
    /\ Responded
    /\ response.val.status = 200
    /\ CRE_SECRET # ""
    /\ invocations = 1
    /\ result.some

\* C8: the provider is invoked at most once per request; when the call
\* fails, or anything but a JSON syntax error is raised after it, the
\* response is 500 {"error": <message>}.
C8_SingleAttempt ==
    /\ invocations \in {0, 1}
    /\ (/\ Responded
        /\ invocations = 1
        /\ ~reply.some \/ (result.some /\ ~IsDict(result.val)))
        => /\ response.val.status = 500
           /\ DOMAIN response.val.body.d = {Key("error")}
           /\ response.val.body.d[Key("error")].t = "str"
           /\ ~reply.some => response.val.body.d[Key("error")].s \in ProviderErrors

\* The provider call failed and the request ended in a 500.
C8_Witness ==
    /\ Responded
    /\ invocations = 1
    /\ ~reply.some
    /\ response.val = Http(500, ErrorBody(<<"Connection error.">>))

\* C9: a malformed body is read as the empty object and the prompt is the
\* empty snapshot's; no body keeps an authorized request with its
\* credential from reaching the provider.
C9_BodyNeverFailsRequest ==
    /\ (data.some /\ ~JsonLoads(body).ok) => data.val = EmptyDict
    /\ (prompt.some /\ ~JsonLoads(body).ok)
        => prompt.val = FormatFor(endpoint, EmptyDict).text
    /\ (Responded /\ SecretMatches /\ OwnCredential # "") => invocations = 1

\* ------------------------------------------------- claims: formatUnits_py

\* The text is a decimal integer: digits only, whitespace around them aside.
C10_Decimal(s) ==
    LET u == Strip(s)
    IN u # <<>> /\ \A i \in 1..Len(u) : IsDigit(u[i])

\* The text is a decimal integer with a sign.
C10_Signed(s) ==
    LET u == Strip(s)
    IN u # <<>> /\ Head(u) \in {"+", "-"} /\ C10_Decimal(Tail(u))
           /\ Tail(u) = Strip(Tail(u))

\* The digits of a decimal integer, zero-filled to one more than d digits.
C10_Padded(s, d) ==
    LET u == Strip(s)
    IN IF Len(u) > d THEN u ELSE Repeat("0", d + 1 - Len(u)) \o u

\* Index of the first character of s that is not "0", or of the last one.
C10_FirstSignificant(s) ==
    IF \A i \in 1..Len(s) : s[i] = "0" THEN Len(s)
    ELSE CHOOSE i \in 1..Len(s) :
            s[i] # "0" /\ \A j \in 1..(i - 1) : s[j] = "0"

\* out is "<whole with thousands separators>.<two digits>" of the decimal
\* integer s with d implied decimals, the fraction cut and not rounded.
C10_Formats(s, d, out) ==
    LET p == C10_Padded(s, d)
        units == SubSeq(p, 1, Len(p) - d)
        whole == SubSeq(units, C10_FirstSignificant(units), Len(units))
        dot == Len(out) - 2
        int == SubSeq(out, 1, dot - 1)
    IN /\ Len(out) >= 4
       /\ out[dot] = "."
       /\ out[dot + 1] = p[Len(p) - d + 1]
       /\ out[dot + 2] = p[Len(p) - d + 2]
       /\ \A i \in 1..Len(int) :
             (int[i] = ",") <=> ((Len(int) - i + 1) % 4 = 0)
       /\ SelectSeq(int, LAMBDA c : c # ",") = whole

\* A value that is no number and no text of a number.
C10_NonNumeric(v) ==
    /\ v.t \notin {"int", "bool", "float"}
    /\ v.t = "str" => ~C10_Decimal(v.s) /\ ~C10_Signed(v.s)

\* C10: for a decimal integer string, formatUnits_py gives the whole part
\* v div 10^18 with thousands separators, a dot and the first two digits of
\* v mod 10^18, cut and not rounded ("1500000000000000000000" gives
\* "1,500.00"); for every input that is no number it raises nothing and
\* returns the input, as text, unchanged.
C10_FormatUnits ==
    formatted.some =>
        /\ (value_str.t = "str" /\ C10_Decimal(value_str.s)) =>
              /\ ~formatted.val.raised
              /\ C10_Formats(value_str.s, Decimals, formatted.val.text)
        /\ value_str = PyStr(<<"1", "5">> \o Repeat("0", 20)) =>
              formatted.val.text = <<"1", ",", "5", "0", "0", ".", "0", "0">>
        /\ C10_NonNumeric(value_str) =>
              /\ ~formatted.val.raised
              /\ value_str.t = "str" => formatted.val.text = value_str.s
              /\ value_str.t = "None" => formatted.val.text = <<"None">>

\* The same without the inputs that are no text: what holds of the code.
C10_FormatUnitsOfText ==
    (formatted.some /\ value_str.t = "str") => C10_FormatUnits

\* ------------------------------------------------- claims: _format_prompt

\* Index of the first piece of text equal to piece, or 0.
C6_IndexOf(text, piece) ==
    IF \E i \in 1..Len(text) : text[i] = piece
    THEN CHOOSE i \in 1..Len(text) :
            text[i] = piece /\ \A j \in 1..(i - 1) : text[j] # piece
    ELSE 0

\* The line of text that begins with label, without the label.
C6_Line(text, label) ==
    LET from == C6_IndexOf(text, label)
        rest == SubSeq(text, from + 1, Len(text))
        stop == C6_IndexOf(rest, "\n")
    IN IF stop = 0 THEN rest ELSE SubSeq(rest, 1, stop - 1)

\* The pieces of line after the piece left (the start if left is "") and
\* before the piece right that follows (the end if right is "").
C6_Between(line, left, right) ==
    LET rest == IF left = "" THEN line
                ELSE SubSeq(line, C6_IndexOf(line, left) + 1, Len(line))
        stop == IF right = "" THEN 0 ELSE C6_IndexOf(rest, right)
    IN IF stop = 0 THEN rest ELSE SubSeq(rest, 1, stop - 1)

\* Where the prompt shows each optional field: the field's key path, the
\* label of its line, and the pieces before and after it on the line.
C6_PoolSlots(pool, label) ==
    {<<<<"staking", pool, "staked">>, label, "", " / ">>,
     <<<<"staking", pool, "cap">>, label, " / ", " (">>,
     <<<<"staking", pool, "fillPct">>, label, " (", "% full) ">>,
     <<<<"staking", pool, "risk">>, label, EmDash, "">>}

C6_Slots ==
    C6_PoolSlots("community", "Pool A: ")
        \cup C6_PoolSlots("operator", "Pool B: ")
        \cup {<<<<"rewards", "vaultBalance">>, "Balance: ", "", " tokens">>,
              <<<<"rewards", "emissionPerDay">>, "Emission: ", "", " tokens/day">>,
              <<<<"rewards", "runwayDays">>, "Runway: ", "", " days ">>,
              <<<<"rewards", "risk">>, "Runway: ", EmDash, "">>,
              <<<<"morpho", "utilization">>, "Utilization: ", "", " ">>,
              <<<<"morpho", "risk">>, "Utilization: ", EmDash, "">>,
              <<<<"morpho", "vaultTvlUsd">>, "Vault TVL: ", "", "">>,
              <<<<"queue", "queueLink">>, "Queue Depth: ", "", " ">>,
              <<<<"queue", "risk">>, "Queue Depth: ", EmDash, "">>}

\* What the prompt shows in a slot, the space after a dash aside.
C6_Shown(text, slot) ==
    LET shown == C6_Between(C6_Line(text, slot[2]), slot[3], slot[4])
    IN IF slot[3] = EmDash /\ shown # <<>> /\ Head(shown) = " "
       THEN Tail(shown) ELSE shown

C6_Placeholders == {<<"?">>, <<"unavailable">>}

\* C6: for a TreasurySnapshot with any optional fields or sub-objects
\* absent, _format_prompt raises nothing and shows every absent field, the
\* numeric ones included, as "?" or "unavailable", never as a number.
C6_AbsentFieldsArePlaceholders ==
    rendered.some =>
        /\ ~rendered.val.raised
        /\ \A slot \in C6_Slots :
              ~Present(snapshot, slot[1])
                  => C6_Shown(rendered.val.text, slot) \in C6_Placeholders

====
